---------------------------- MODULE Spec2Model ----------------------------
(* Campaign generator (src/main.py): the pay-split solver, the scale/PV    *)
(* calculator, the mission-count sampler, the mission-schedule generator   *)
(* and the campaign assembler, as one sequential state machine.            *)
(*                                                                         *)
(* Real numbers are exact rationals: a scale multiplier is a numerator     *)
(* over ScaleDen, a variance factor a numerator over VarDen.  Every draw   *)
(* of the random source is a nondeterministic choice.                      *)
EXTENDS Integers, Sequences, FiniteSets, TLC

VARIABLES
    entry,                  \* the function that was called
    pc,                     \* position in the running function
    campaign_data,          \* archetype table (parse_campaign_data)
    intensity_data,         \* intensity table (parse_intensity_data)
    contract_params,        \* actors and salvage (parse_contract_parameters)
    campaign_type,
    intensity_name,
    duration,
    employer,
    opponent,
    salvage,
    pv_value,
    digestible_total_pay,   \* total_pay of calculate_pay_split
    split,                  \* <<monthly_retainer, bonus>>
    available_missions,
    last_mission,
    month,
    count,
    month_missions,
    schedule,
    output

vars == <<entry, pc, campaign_data, intensity_data, contract_params,
          campaign_type, intensity_name, duration, employer, opponent,
          salvage, pv_value, digestible_total_pay, split,
          available_missions, last_mission, month, count, month_missions,
          schedule, output>>

-----------------------------------------------------------------------------
(* Bounds of the model *)

MaxPay == 300         \* calculate_pay_split: total_pay ranges over 0..MaxPay
MaxMonths == 6        \* calculate_pay_split: duration ranges over 1..MaxMonths
MaxDuration == 3      \* generate_mission_schedule: duration ranges over 1..MaxDuration
ScaleDen == 16        \* a scale multiplier is k / ScaleDen
MaxScale == 2         \* scale bounds range over -1.0 .. MaxScale
VarDen == 105         \* a variance factor is v / VarDen

-----------------------------------------------------------------------------
(* Python values *)

None == "None"

Range(s) == {s[i] : i \in DOMAIN s}

\* dict.get(key, default)
Get(d, k, default) == IF k \in DOMAIN d THEN d[k] ELSE default

\* str.strip() on the names the model draws
Strip(s) == IF s = " Low " THEN "Low" ELSE s

\* round(n / d) for d > 0: Python 3 rounds half to even
RoundHalfEven(n, d) ==
    LET q == n \div d
        r == n % d
    IN  IF 2 * r < d THEN q
        ELSE IF 2 * r > d THEN q + 1
        ELSE IF q % 2 = 0 THEN q ELSE q + 1

\* [x for x in s if x != v]
RECURSIVE Without(_, _)
Without(s, v) ==
    IF s = <<>> THEN <<>>
    ELSE IF Head(s) = v THEN Without(Tail(s), v)
    ELSE <<Head(s)>> \o Without(Tail(s), v)

\* list(d.keys())
Keys(d) == DOMAIN d

-----------------------------------------------------------------------------
(* calculate_pay_split *)

\* variant: the test without the multiple-of-5 check on the bonus
NoBonusMultipleKeepSplit(total_pay, total_retainer, bonus) ==
    /\ 4 * total_retainer >= total_pay
    /\ 4 * bonus >= total_pay

\* the loop body's test: both parts at least 25%, bonus a multiple of 5
KeepSplit(total_pay, total_retainer, bonus) ==
    /\ 4 * total_retainer >= total_pay
    /\ 4 * bonus >= total_pay
    /\ bonus % 5 = 0

\* range(0, stop, 5) as a sequence
Range5(stop) ==
    IF stop <= 0 THEN << >>
    ELSE [i \in 1 .. ((stop + 4) \div 5) |-> 5 * (i - 1)]

\* the list the for loop builds: every m of the range that passes the test,
\* in order, with its bonus
PossibleSplits(total_pay, dur) ==
    LET kept == SelectSeq(Range5((total_pay \div dur) + 5),
                          LAMBDA m : KeepSplit(total_pay, m * dur,
                                               total_pay - m * dur))
    IN  [i \in DOMAIN kept |-> <<kept[i], total_pay - kept[i] * dur>>]

\* variant: the fallback retainer taken from half the total, not per month
NoDurationFallbackSplit(total_pay, dur) ==
    LET m_raw == total_pay \div 2
        m_fallback == 5 * RoundHalfEven(m_raw, 5)
    IN  <<m_fallback, total_pay - (m_fallback * dur)>>

\* the 50/50 fallback, the retainer rounded to the nearest 5
FallbackSplit(total_pay, dur) ==
    LET m_raw == (total_pay \div 2) \div dur
        m_fallback == 5 * RoundHalfEven(m_raw, 5)
        bonus_fallback == total_pay - (m_fallback * dur)
    IN  <<m_fallback, bonus_fallback>>

\* every pair calculate_pay_split(total_pay, dur) can return
CalculatePaySplit(total_pay, dur) ==
    LET possible_splits == PossibleSplits(total_pay, dur)
    IN  IF possible_splits # <<>> THEN Range(possible_splits)
        ELSE {FallbackSplit(total_pay, dur)}

-----------------------------------------------------------------------------
(* calculate_scale_pv *)

\* numerators k of the multipliers k / ScaleDen that random.uniform(a, b)
\* can return: a + (b - a) * random() lies between a and b in either order
Uniform(a, b) == {k \in -ScaleDen * MaxScale .. ScaleDen * MaxScale :
                     \/ a <= k /\ k <= b
                     \/ b <= k /\ k <= a}

\* int(5 * round(raw_pv / 5)) with raw_pv = 120 * k / ScaleDen
\* variant: the raw PV truncated, not rounded to a multiple of 5
NoRoundDigestiblePV(k) == (120 * k) \div ScaleDen

DigestiblePV(k) == 5 * RoundHalfEven(120 * k, 5 * ScaleDen)

\* stats.get('scale_min', 1.0) / stats.get('scale_max', 1.0)
ScaleBound(stats, key) == Get(stats, key, ScaleDen)

\* every value calculate_scale_pv(name, table) can return
CalculateScalePV(name, table) ==
    LET stats == Get(table, Strip(name), << >>)
        scale_min == ScaleBound(stats, "scale_min")
        scale_max == ScaleBound(stats, "scale_max")
    IN  {DigestiblePV(k) : k \in Uniform(scale_min, scale_max)}

-----------------------------------------------------------------------------
(* get_monthly_mission_count *)

intensity_rules ==
    [n \in {"Very low", "Low", "Medium", "High", "Very high"} |->
        CASE n = "Very low"  -> [counts |-> <<0, 1>>,    weights |-> <<75, 25>>]
          [] n = "Low"       -> [counts |-> <<0, 1>>,    weights |-> <<50, 50>>]
          [] n = "Medium"    -> [counts |-> <<0, 1, 2>>, weights |-> <<20, 60, 20>>]
          [] n = "High"      -> [counts |-> <<1, 2, 3>>, weights |-> <<20, 60, 20>>]
          [] n = "Very high" -> [counts |-> <<2, 3, 4>>, weights |-> <<20, 60, 20>>]]

\* random.choices(population, weights=weights)[0]
Choices(population, weights) ==
    {population[i] : i \in {j \in DOMAIN population : weights[j] > 0}}

\* variant: an unknown name falls back to the Low row
LowDefaultRule(name) ==
    Get(intensity_rules, Strip(name), intensity_rules["Low"])

\* intensity_rules.get(intensity_name.strip(), intensity_rules["Medium"])
Rule(name) ==
    Get(intensity_rules, Strip(name), intensity_rules["Medium"])

\* every value get_monthly_mission_count(name) can return
GetMonthlyMissionCount(name) ==
    LET rule == Rule(name) IN Choices(rule.counts, rule.weights)

-----------------------------------------------------------------------------
(* Reference data the runs draw from *)

IntensityNames == {"Very low", "Low", "Medium", "High", "Very high",
                   "Standard", " Low "}

\* archetypes by the shape of their missions list (parse_campaign_data
\* leaves [] for a key whose next cell is blank)
MissionTable ==
    ("Absent" :> [intensity |-> <<"Low">>])
    @@ ("Empty"  :> [missions |-> << >>])
    @@ ("Single" :> [missions |-> <<"Raid">>])
    @@ ("Repeat" :> [missions |-> <<"Raid", "Raid">>])
    @@ ("Pair"   :> [missions |-> <<"Raid", "Recon">>])
    @@ ("Triple" :> [missions |-> <<"Raid", "Recon", "Siege">>])

\* the end-to-end scenario.  An opfor multiplier is the fraction num / den; a
\* cell that holds no number is kept as its text.
EndToEndCampaigns ==
    "Archetype" :> [missions  |-> <<"Raid">>,
                    intensity |-> <<"Low">>,
                    duration  |-> <<3>>,
                    opfor     |-> <<[num |-> 1, den |-> 1]>>]

EndToEndIntensity ==
    "Low" :> [payout |-> 1000, scale_min |-> ScaleDen, scale_max |-> ScaleDen]

EndToEndParams == [actors |-> <<"Alpha", "Beta">>, salvage |-> <<"50/50">>]

EndToEndScenario ==
    [campaign_data |-> EndToEndCampaigns, intensity_data |-> EndToEndIntensity,
     contract_params |-> EndToEndParams]

SmallCampaigns ==
    ("Garrison" :> [missions  |-> <<"Patrol", "Defend">>,
                    intensity |-> <<"Medium", " Low ">>,
                    duration  |-> <<1, 2>>,
                    opfor     |-> <<[num |-> 1, den |-> 1], [num |-> 3, den |-> 2]>>])
    @@ ("Raid"  :> [opfor     |-> <<[text |-> "n/a"]>>])
    @@ ("Siege" :> [missions  |-> << >>,
                    intensity |-> <<"High">>,
                    duration  |-> <<1>>,
                    opfor     |-> << >>])

SmallIntensity ==
    ("Low" :> [description |-> "Skirmishes", probability |-> 30,
               payout |-> 10,
               scale_min |-> (3 * ScaleDen) \div 4, scale_max |-> ScaleDen])
    @@ ("Medium" :> [description |-> "Regular fighting", probability |-> 40,
                     payout |-> 25,
                     scale_min |-> ScaleDen, scale_max |-> (5 * ScaleDen) \div 4])
    @@ ("High" :> [description |-> "Heavy fighting", probability |-> 30,
                   payout |-> 40,
                   scale_min |-> (5 * ScaleDen) \div 4,
                   scale_max |-> (3 * ScaleDen) \div 2])

ActorPools == {<< >>, <<"Alpha">>, <<"Alpha", "Alpha">>, <<"Alpha", "Beta">>,
               <<"Alpha", "Beta", "Alpha">>, <<"Alpha", "Beta", "Gamma">>}

Scenarios ==
    {EndToEndScenario}
    \cup {[campaign_data |-> SmallCampaigns, intensity_data |-> SmallIntensity,
           contract_params |-> [actors |-> a, salvage |-> <<"50/50", "Full">>]]
            : a \in ActorPools}
    \cup {[campaign_data |-> << >>, intensity_data |-> SmallIntensity,
           contract_params |-> EndToEndParams]}

-----------------------------------------------------------------------------
(* Initial states: one per entry point *)

Locals ==
    /\ employer = None
    /\ opponent = None
    /\ salvage = None
    /\ pv_value = None
    /\ split = None
    /\ available_missions = None
    /\ last_mission = None
    /\ month = None
    /\ count = None
    /\ month_missions = None
    /\ schedule = None
    /\ output = None

\* generate_random_campaign(campaign_data, intensity_data, contract_params)
Init ==
    /\ entry = "generate_random_campaign"
    /\ pc = "details"
    /\ \E s \in Scenarios :
          /\ campaign_data = s.campaign_data
          /\ intensity_data = s.intensity_data
          /\ contract_params = s.contract_params
    /\ campaign_type = None
    /\ intensity_name = None
    /\ duration = None
    /\ digestible_total_pay = None
    /\ Locals

\* calculate_pay_split(total_pay, duration)
InitPay ==
    /\ entry = "calculate_pay_split"
    /\ pc = "split"
    /\ digestible_total_pay \in 0..MaxPay
    /\ duration \in 1..MaxMonths
    /\ campaign_data = << >>
    /\ intensity_data = << >>
    /\ contract_params = << >>
    /\ campaign_type = None
    /\ intensity_name = None
    /\ Locals

\* calculate_scale_pv(intensity_name, intensity_data)
InitPV ==
    /\ entry = "calculate_scale_pv"
    /\ pc = "scale"
    /\ intensity_name \in {"Low", " Low ", "Standard"}
    /\ \E a, b \in -ScaleDen .. MaxScale * ScaleDen :
          intensity_data = ("Low" :> [scale_min |-> a, scale_max |-> b])
    /\ campaign_data = << >>
    /\ contract_params = << >>
    /\ campaign_type = None
    /\ duration = None
    /\ digestible_total_pay = None
    /\ Locals

\* generate_mission_schedule(duration, intensity_name, campaign_type, campaign_data)
InitSched ==
    /\ entry = "generate_mission_schedule"
    /\ pc = "schedule"
    /\ duration \in 1..MaxDuration
    /\ intensity_name \in IntensityNames
    /\ campaign_type \in DOMAIN MissionTable \cup {"Missing"}
    /\ campaign_data = MissionTable
    /\ intensity_data = << >>
    /\ contract_params = << >>
    /\ digestible_total_pay = None
    /\ Locals

-----------------------------------------------------------------------------
(* generate_random_campaign, step 1: campaign and core details *)

Details(ct) == campaign_data[ct]
IntensityChoices(ct) == Get(Details(ct), "intensity", <<"Standard">>)
DurationChoices(ct) == Get(Details(ct), "duration", <<1>>)

PickDetails ==
    /\ pc = "details"
    /\ \E ct \in Keys(campaign_data) :
          /\ campaign_type' = ct
          /\ intensity_name' \in Range(IntensityChoices(ct))
          /\ duration' \in Range(DurationChoices(ct))
    /\ pc' = "parties"
    /\ UNCHANGED <<entry, campaign_data, intensity_data, contract_params,
                   employer, opponent, salvage, pv_value,
                   digestible_total_pay, split, available_missions,
                   last_mission, month, count, month_missions, schedule,
                   output>>

\* random.choice of an empty sequence raises IndexError
DetailsFail ==
    /\ pc = "details"
    /\ \/ Keys(campaign_data) = {}
       \/ \E ct \in Keys(campaign_data) :
             \/ IntensityChoices(ct) = << >>
             \/ DurationChoices(ct) = << >>
    /\ pc' = "error"
    /\ UNCHANGED <<entry, campaign_data, intensity_data, contract_params,
                   campaign_type, intensity_name, duration,
                   employer, opponent, salvage, pv_value,
                   digestible_total_pay, split, available_missions,
                   last_mission, month, count, month_missions, schedule,
                   output>>

(* step 2: employer, opponent and salvage *)

\* variant: the employer is not removed from the candidates
AllActors(actors, e) == actors

\* [a for a in contract_params["actors"] if a != employer]
RemainingActors(actors, e) == Without(actors, e)

PickParties ==
    /\ pc = "parties"
    /\ \E e \in Range(contract_params.actors) :
          /\ employer' = e
          /\ opponent' \in Range(RemainingActors(contract_params.actors, e))
    /\ salvage' \in Range(contract_params.salvage)
    /\ pc' = "scale"
    /\ UNCHANGED <<entry, campaign_data, intensity_data, contract_params,
                   campaign_type, intensity_name, duration, pv_value,
                   digestible_total_pay, split, available_missions,
                   last_mission, month, count, month_missions, schedule,
                   output>>

PartiesFail ==
    /\ pc = "parties"
    /\ \/ contract_params.actors = << >>
       \/ \E e \in Range(contract_params.actors) :
             RemainingActors(contract_params.actors, e) = << >>
       \/ contract_params.salvage = << >>
    /\ pc' = "error"
    /\ UNCHANGED <<entry, campaign_data, intensity_data, contract_params,
                   campaign_type, intensity_name, duration,
                   employer, opponent, salvage, pv_value,
                   digestible_total_pay, split, available_missions,
                   last_mission, month, count, month_missions, schedule,
                   output>>

(* steps 3 and 4: intensity stats and calculate_scale_pv *)

Stats == Get(intensity_data, Strip(intensity_name), << >>)
IntensityDescription == Get(Stats, "description", "No description available")
BaseMonthlyPayout == Get(Stats, "payout", 0)

ScalePV ==
    /\ pc = "scale"
    /\ pv_value' \in CalculateScalePV(intensity_name, intensity_data)
    /\ pc' = IF entry = "calculate_scale_pv" THEN "done" ELSE "financials"
    /\ UNCHANGED <<entry, campaign_data, intensity_data, contract_params,
                   campaign_type, intensity_name, duration,
                   employer, opponent, salvage,
                   digestible_total_pay, split, available_missions,
                   last_mission, month, count, month_missions, schedule,
                   output>>

(* step 5: financials *)

\* variant: a variance of 50% instead of 20%
WideVarianceFactors == {v \in 0 .. 2 * VarDen : 2 * v >= VarDen /\ 2 * v <= 3 * VarDen}

\* numerators v of the factors v / VarDen of random.uniform(0.8, 1.2)
VarianceFactors == {v \in 0 .. 2 * VarDen : 5 * v >= 4 * VarDen /\ 5 * v <= 6 * VarDen}

\* int(5 * round(final_raw_pay / 5)) with
\* final_raw_pay = (pv / 120) * base_total_pay * (v / VarDen)
Digestible(pv, base_total_pay, v) ==
    5 * RoundHalfEven(pv * base_total_pay * v, 120 * VarDen * 5)

AdjustFinancials ==
    /\ pc = "financials"
    /\ LET base_total_pay == duration * BaseMonthlyPayout
       IN  \E v \in VarianceFactors :
              digestible_total_pay' = Digestible(pv_value, base_total_pay, v)
    /\ pc' = "split"
    /\ UNCHANGED <<entry, campaign_data, intensity_data, contract_params,
                   campaign_type, intensity_name, duration,
                   employer, opponent, salvage, pv_value,
                   split, available_missions,
                   last_mission, month, count, month_missions, schedule,
                   output>>

SplitPay ==
    /\ pc = "split"
    /\ split' \in CalculatePaySplit(digestible_total_pay, duration)
    /\ pc' = IF entry = "calculate_pay_split" THEN "done" ELSE "schedule"
    /\ UNCHANGED <<entry, campaign_data, intensity_data, contract_params,
                   campaign_type, intensity_name, duration,
                   employer, opponent, salvage, pv_value,
                   digestible_total_pay, available_missions,
                   last_mission, month, count, month_missions, schedule,
                   output>>

-----------------------------------------------------------------------------
(* step 6: generate_mission_schedule *)

\* campaign_data.get(campaign_type, {}).get('missions', ["Standard Combat"])
AvailableMissions(table, ct) ==
    Get(Get(table, ct, << >>), "missions", <<"Standard Combat">>)

\* variant: the last mission is not excluded
NoExclusionValidChoices(available, last) == available

\* the candidates of one pick: the last mission excluded, unless that
\* leaves nothing
ValidChoices(available, last) ==
    LET valid_choices == Without(available, last)
    IN  IF valid_choices = << >> THEN available ELSE valid_choices

SchedBegin ==
    /\ pc = "schedule"
    /\ schedule' = << >>
    /\ available_missions' = AvailableMissions(campaign_data, campaign_type)
    /\ last_mission' = None
    /\ month' = 1
    /\ pc' = "month"
    /\ UNCHANGED <<entry, campaign_data, intensity_data, contract_params,
                   campaign_type, intensity_name, duration,
                   employer, opponent, salvage, pv_value,
                   digestible_total_pay, split, count, month_missions,
                   output>>

\* the inner loop: every list of n picks it can build when the last mission
\* picked before it is last (no list when a choice has no candidate)
RECURSIVE MonthPicks(_, _, _)
MonthPicks(n, available, last) ==
    IF n = 0 THEN {<< >>}
    ELSE UNION {{<<current_mission>> \o rest :
                    rest \in MonthPicks(n - 1, available, current_mission)} :
                current_mission \in Range(ValidChoices(available, last))}

\* one iteration of the month loop
Month ==
    /\ pc = "month"
    /\ month <= duration
    /\ \E c \in GetMonthlyMissionCount(intensity_name) :
       \E picks \in MonthPicks(c, available_missions, last_mission) :
          /\ count' = c
          /\ month_missions' = picks
          /\ last_mission' = IF c = 0 THEN last_mission ELSE picks[c]
          /\ schedule' = Append(schedule, [month |-> month, count |-> c,
                                           types |-> picks])
    /\ month' = month + 1
    /\ UNCHANGED <<entry, pc, campaign_data, intensity_data, contract_params,
                   campaign_type, intensity_name, duration,
                   employer, opponent, salvage, pv_value,
                   digestible_total_pay, split, available_missions, output>>

\* random.choice of an empty valid_choices raises IndexError
MonthFails ==
    /\ pc = "month"
    /\ month <= duration
    /\ \E c \in GetMonthlyMissionCount(intensity_name) :
          /\ c > 0
          /\ ValidChoices(available_missions, last_mission) = << >>
          /\ count' = c
    /\ month_missions' = << >>
    /\ pc' = "error"
    /\ UNCHANGED <<entry, campaign_data, intensity_data, contract_params,
                   campaign_type, intensity_name, duration,
                   employer, opponent, salvage, pv_value,
                   digestible_total_pay, split, available_missions,
                   last_mission, month, schedule, output>>

SchedReturn ==
    /\ pc = "month"
    /\ month > duration
    /\ pc' = IF entry = "generate_mission_schedule" THEN "done" ELSE "format"
    /\ UNCHANGED <<entry, campaign_data, intensity_data, contract_params,
                   campaign_type, intensity_name, duration,
                   employer, opponent, salvage, pv_value,
                   digestible_total_pay, split, available_missions,
                   last_mission, month, count, month_missions, schedule,
                   output>>

-----------------------------------------------------------------------------
(* step 7: the report, one tuple per line: the label, then the values the   *)
(* f-string interpolates                                                    *)

ScheduleLine(item) ==
    LET m_text == IF item.count = 1 THEN "mission" ELSE "missions"
        line == <<"Month", item.month, item.count, m_text>>
    IN  IF item.count > 0 THEN Append(line, item.types) ELSE line

Report ==
    LET duration_text == IF duration = 1 THEN <<duration, "month">>
                                         ELSE <<duration, "months">>
    IN  << <<"Employer", employer>>,
           <<"Opponent", opponent>>,
           <<"Campaign", campaign_type>>,
           <<"Intensity", intensity_name, IntensityDescription>>,
           <<"Duration", duration_text>>,
           <<"Salvage", salvage>>,
           <<"Pay (retainer)", split[1], "per month">>,
           <<"Pay (bonus)", split[2], "one-time">>,
           <<"Scale", pv_value>>,
           <<"Mission Schedule">> >>
        \o [i \in DOMAIN schedule |-> ScheduleLine(schedule[i])]

Format ==
    /\ pc = "format"
    /\ output' = Report
    /\ pc' = "done"
    /\ UNCHANGED <<entry, campaign_data, intensity_data, contract_params,
                   campaign_type, intensity_name, duration,
                   employer, opponent, salvage, pv_value,
                   digestible_total_pay, split, available_missions,
                   last_mission, month, count, month_missions, schedule>>

-----------------------------------------------------------------------------
(* Specifications *)

Schedule ==
    \/ SchedBegin
    \/ Month
    \/ MonthFails
    \/ SchedReturn

Next ==
    \/ PickDetails
    \/ DetailsFail
    \/ PickParties
    \/ PartiesFail
    \/ ScalePV
    \/ AdjustFinancials
    \/ SplitPay
    \/ Schedule
    \/ Format

Spec == Init /\ [][Next]_vars

SpecPay == InitPay /\ [][SplitPay]_vars

SpecPV == InitPV /\ [][ScalePV]_vars

SpecSched == InitSched /\ [][Schedule]_vars

-----------------------------------------------------------------------------
(* Properties of calculate_pay_split, checked under SpecPay *)

PayReturned == entry = "calculate_pay_split" /\ pc = "done"

\* C1: whenever calculate_pay_split returns a candidate, that is a pair drawn
\* from a non-empty possible_splits, the pair (retainer, bonus) satisfies
\* retainer*duration + bonus = total_pay, retainer % 5 = 0, bonus % 5 = 0,
\* retainer*duration >= 0.25*total_pay and bonus >= 0.25*total_pay.
C1_CandidateSplitValid ==
    (PayReturned /\ PossibleSplits(digestible_total_pay, duration) # << >>) =>
        LET retainer == split[1]
            bonus == split[2]
            total_pay == digestible_total_pay
        IN  /\ retainer * duration + bonus = total_pay
            /\ retainer % 5 = 0
            /\ bonus % 5 = 0
            /\ 4 * (retainer * duration) >= total_pay
            /\ 4 * bonus >= total_pay

\* a candidate with a positive retainer and a positive bonus was returned
C1_Witness ==
    /\ PayReturned
    /\ PossibleSplits(digestible_total_pay, duration) # << >>
    /\ duration > 1
    /\ split[1] > 0
    /\ split[2] > 0

\* all splits the constraints admit, over every multiple of 5 up to past
\* total_pay, whatever the loop enumerates
ValidSplits(total_pay, dur) ==
    {<<m, total_pay - m * dur>> :
        m \in {x \in 0 .. total_pay + 10 :
                  /\ x % 5 = 0
                  /\ 4 * (x * dur) >= total_pay
                  /\ 4 * (total_pay - x * dur) >= total_pay
                  /\ (total_pay - x * dur) % 5 = 0}}

\* C9: the pairs calculate_pay_split can return are exactly all valid splits
\* when there is one, and the pair returned is one of them; when there is
\* none the result is the fallback pair
\* (5*round((total_pay // 2 // duration)/5), total_pay - retainer*duration).
C9_AllSplitsOrFallback ==
    PayReturned =>
        LET total_pay == digestible_total_pay
            valid == ValidSplits(total_pay, duration)
            retainer == 5 * RoundHalfEven((total_pay \div 2) \div duration, 5)
        IN  IF valid # {}
            THEN /\ split \in valid
                 /\ CalculatePaySplit(total_pay, duration) = valid
            ELSE /\ split = <<retainer, total_pay - retainer * duration>>
                 /\ CalculatePaySplit(total_pay, duration) = {split}

\* the fallback was returned, with a retainer above zero that breaks the
\* constraints
C9_Witness ==
    /\ PayReturned
    /\ ValidSplits(digestible_total_pay, duration) = {}
    /\ split[1] > 0
    /\ split[2] % 5 # 0

-----------------------------------------------------------------------------
(* Properties of calculate_scale_pv, checked under SpecPV *)

PVReturned == entry = "calculate_scale_pv" /\ pc = "done"

KnownIntensity == Strip(intensity_name) \in DOMAIN intensity_data

\* 5 * round(120 * bound / 5) for a scale bound k / ScaleDen
RoundedPV(k) == 5 * RoundHalfEven(120 * k, 5 * ScaleDen)

\* C6 as stated: for every profile with scale_min <= scale_max the result is
\* a non-negative multiple of 5 within
\* [5*round(120*scale_min/5), 5*round(120*scale_max/5)]; for an intensity
\* name absent from the table the result is exactly 120.
C6_AsStated ==
    PVReturned =>
        IF KnownIntensity
        THEN LET profile == intensity_data[Strip(intensity_name)]
             IN  profile.scale_min <= profile.scale_max =>
                    /\ pv_value >= 0
                    /\ pv_value % 5 = 0
                    /\ RoundedPV(profile.scale_min) <= pv_value
                    /\ pv_value <= RoundedPV(profile.scale_max)
        ELSE pv_value = 120

\* C6 amended: for every profile with scale_min <= scale_max the result is a
\* multiple of 5 within [5*round(120*scale_min/5), 5*round(120*scale_max/5)],
\* and it is non-negative when scale_min >= 0; for an intensity name absent
\* from the table the result is exactly 120.
C6_ScalePVInRange ==
    PVReturned =>
        IF KnownIntensity
        THEN LET profile == intensity_data[Strip(intensity_name)]
             IN  profile.scale_min <= profile.scale_max =>
                    /\ profile.scale_min >= 0 => pv_value >= 0
                    /\ pv_value % 5 = 0
                    /\ RoundedPV(profile.scale_min) <= pv_value
                    /\ pv_value <= RoundedPV(profile.scale_max)
        ELSE pv_value = 120

\* a PV strictly inside the range of a profile with 0 <= scale_min < scale_max,
\* drawn from a multiplier that had to be rounded
C6_Witness ==
    /\ PVReturned
    /\ KnownIntensity
    /\ LET profile == intensity_data[Strip(intensity_name)]
       IN  /\ 0 <= profile.scale_min
           /\ profile.scale_min < profile.scale_max
           /\ RoundedPV(profile.scale_min) < pv_value
           /\ pv_value < RoundedPV(profile.scale_max)
           /\ \E k \in Uniform(profile.scale_min, profile.scale_max) :
                 /\ DigestiblePV(k) = pv_value
                 /\ (120 * k) % (5 * ScaleDen) # 0

-----------------------------------------------------------------------------
(* Properties of generate_mission_schedule and get_monthly_mission_count,   *)
(* checked under SpecSched                                                  *)

SchedStarted == entry = "generate_mission_schedule" /\ pc # "schedule"

SchedReturned == entry = "generate_mission_schedule" /\ pc = "done"

\* the picks of all months so far, in order; empty months add nothing
RECURSIVE Flatten(_)
Flatten(entries) ==
    IF entries = << >> THEN << >>
    ELSE Head(entries).types \o Flatten(Tail(entries))

PicksSoFar == Flatten(schedule)

\* C2: the schedule returned has exactly duration entries, months 1..duration
\* in order, len(types) = count in each entry, and in the concatenation of
\* all picks no two adjacent picks are equal unless only one mission type is
\* available; with at least one mission available the generator never fails.
C2_ScheduleShape ==
    SchedStarted =>
        /\ \A i \in DOMAIN schedule :
              /\ schedule[i].month = i
              /\ Len(schedule[i].types) = schedule[i].count
        /\ Len(schedule) <= duration
        /\ pc = "done" => Len(schedule) = duration
        /\ Cardinality(Range(available_missions)) > 1 =>
              \A j \in 1 .. Len(PicksSoFar) - 1 : PicksSoFar[j] # PicksSoFar[j + 1]
        /\ Range(PicksSoFar) \subseteq Range(available_missions)
        /\ available_missions # << >> => pc # "error"

\* three months returned, the middle one empty, and the picks on either side
\* of it drawn from several mission types
C2_Witness ==
    /\ SchedReturned
    /\ duration = 3
    /\ Cardinality(Range(available_missions)) > 1
    /\ schedule[1].count > 0
    /\ schedule[2].count = 0
    /\ schedule[3].count > 1

\* the counts the table lists for a name, after stripping; any other name
\* has the Medium row
ListedCounts(name) ==
    CASE name = "Very low"  -> {0, 1}
      [] name = "Low"       -> {0, 1}
      [] name = "Medium"    -> {0, 1, 2}
      [] name = "High"      -> {1, 2, 3}
      [] name = "Very high" -> {2, 3, 4}
      [] OTHER              -> {0, 1, 2}

RECURSIVE SumSeq(_)
SumSeq(q) == IF q = << >> THEN 0 ELSE Head(q) + SumSeq(Tail(q))

\* C8: get_monthly_mission_count returns exactly the counts listed for the
\* intensity's row (the Medium row for a name not in the table), each row's
\* weights sum to 100, and every schedule entry's count lies in the row of
\* the schedule's intensity.
C8_CountInRow ==
    SchedStarted =>
        /\ GetMonthlyMissionCount(intensity_name) = ListedCounts(Strip(intensity_name))
        /\ SumSeq(Rule(intensity_name).weights) = 100
        /\ (schedule # << >> \/ pc = "error") =>
              count \in ListedCounts(Strip(intensity_name))
        /\ \A i \in DOMAIN schedule :
              schedule[i].count \in ListedCounts(Strip(intensity_name))

\* an unknown intensity name whose schedule shows every count of the Medium row
C8_Witness ==
    /\ SchedReturned
    /\ intensity_name = "Standard"
    /\ {schedule[i].count : i \in DOMAIN schedule} = {0, 1, 2}

\* the archetype lists no mission: no missions key, or a key with no entries
NoMissionsDefined ==
    Get(Get(campaign_data, campaign_type, << >>), "missions", << >>) = << >>

\* C10: when the archetype defines no mission types (missions absent or
\* empty), schedule generation completes without error and every scheduled
\* mission is "Standard Combat".
C10_DefaultMissions ==
    (SchedStarted /\ NoMissionsDefined) =>
        /\ pc # "error"
        /\ Range(PicksSoFar) \subseteq {"Standard Combat"}

-----------------------------------------------------------------------------
(* Properties of generate_random_campaign, checked under Spec *)

CampaignReturned == entry = "generate_random_campaign" /\ pc = "done"

\* the parties were drawn: the run is past step 2
PartiesDrawn ==
    /\ entry = "generate_random_campaign"
    /\ pc \notin {"details", "parties"}
    /\ employer # None

\* C3: with an actor pool of size >= 2, every campaign produced names an
\* opponent different from the employer, in the record and in the report.
C3_OpponentIsNotEmployer ==
    /\ (PartiesDrawn /\ Len(contract_params.actors) >= 2) =>
          /\ opponent # employer
          /\ {employer, opponent} \subseteq Range(contract_params.actors)
    /\ (CampaignReturned /\ Len(contract_params.actors) >= 2) =>
          /\ output[1] = <<"Employer", employer>>
          /\ output[2] = <<"Opponent", opponent>>
          /\ output[1][2] # output[2][2]

\* a campaign was produced from a pool that repeats a name, the repeated name
\* being the opponent
C3_Witness ==
    /\ CampaignReturned
    /\ contract_params.actors = <<"Alpha", "Beta", "Alpha">>
    /\ employer = "Beta"
    /\ opponent = "Alpha"

FewerThanTwoActors ==
    /\ entry = "generate_random_campaign"
    /\ Cardinality(Range(contract_params.actors)) < 2

\* C4: with fewer than 2 distinct actors the generation raises at the choice
\* of the parties and stops there: no opponent is drawn, no later step runs
\* and no report, complete or partial, is returned.
C4_InsufficientActorsAbort ==
    FewerThanTwoActors =>
        /\ pc \in {"details", "parties", "error"}
        /\ pc = "parties" => (ENABLED PartiesFail) /\ ~(ENABLED PickParties)
        /\ opponent = None
        /\ pv_value = None
        /\ split = None
        /\ schedule = None
        /\ output = None

\* the generation failed at the parties for a pool that repeats one name
C4_Witness ==
    /\ FewerThanTwoActors
    /\ contract_params.actors = <<"Alpha", "Alpha">>
    /\ campaign_type # None
    /\ pc = "error"

\* opposing-force PVs the report may carry: pv times a numeric multiplier of
\* the archetype's opfor list (1.0 when none is numeric), times 1.1 when
\* duration = 1, rounded to the nearest multiple of 5
OpforPVs ==
    LET listed == Get(Details(campaign_type), "opfor", << >>)
        numeric == {x \in Range(listed) : "num" \in DOMAIN x}
        mults == IF numeric = {} THEN {[num |-> 1, den |-> 1]} ELSE numeric
        boost == IF duration = 1 THEN 11 ELSE 10
    IN  {5 * RoundHalfEven(pv_value * m.num * boost, m.den * 10 * 5) : m \in mults}

\* C5: every generated campaign reports an opposing-force PV derived from
\* the friendly PV, on a line after the Scale line and before the Mission
\* Schedule section.
C5_OpforReported ==
    CampaignReturned =>
        \E i, j, k \in DOMAIN output :
            /\ i < j /\ j < k
            /\ output[i][1] = "Scale"
            /\ output[k][1] = "Mission Schedule"
            /\ Len(output[j]) >= 2
            /\ output[j][2] \in OpforPVs

EndToEndRun ==
    /\ entry = "generate_random_campaign"
    /\ campaign_data = EndToEndCampaigns
    /\ intensity_data = EndToEndIntensity
    /\ contract_params = EndToEndParams

\* C7: with the single archetype {Raid; Low; 3; 1.0}, Low = {payout 1000,
\* scale 1.0..1.0}, actors [Alpha, Beta] and salvage [50/50], every run
\* completes with PV = 120, duration = 3, a digestible total pay that is a
\* multiple of 5 within [2400, 3600], and a schedule of exactly 3 entries
\* whose mission lists contain only "Raid".
C7_EndToEnd ==
    EndToEndRun =>
        /\ pc # "error"
        /\ pc = "done" =>
              /\ pv_value = 120
              /\ duration = 3
              /\ digestible_total_pay % 5 = 0
              /\ 2400 <= digestible_total_pay
              /\ digestible_total_pay <= 3600
              /\ Len(schedule) = 3
              /\ \A i \in DOMAIN schedule :
                    Range(schedule[i].types) \subseteq {"Raid"}
              /\ output[9] = <<"Scale", 120>>
              /\ Len(output) = 13

\* the scenario's run at the low end of the pay range, with Raid scheduled
\* in consecutive months
C7_Witness ==
    /\ EndToEndRun
    /\ pc = "done"
    /\ digestible_total_pay = 2400
    /\ \A i \in DOMAIN schedule : schedule[i].types = <<"Raid">>

=============================================================================
